---- MODULE Spec2Model ----
(***************************************************************************)
(* Model of src/converter.py: the G-code line parser, the machine-state    *)
(* simulator, the feed-to-rapid decision engine and the single forward     *)
(* pass of convert_file.                                                   *)
(*                                                                         *)
(* A line of text is a sequence of words.  A word is a letter, an optional *)
(* minus sign, the digits that follow it and a flag telling whether white  *)
(* space follows the word ("G1 X1" against "G1X1").  A parenthesised       *)
(* comment is a word with letter "(" and no digits.  The regular           *)
(* expressions of the program are modelled by what they match on such a    *)
(* text: first match wins, \b needs a non-word character on that side.     *)
(* Numbers are integers; distances are in 1/1000 unit and times in         *)
(* milliseconds, rounded down.                                             *)
(***************************************************************************)
EXTENDS Integers, Sequences, FiniteSets

\* ------------------------------------------------------------------ bounds

\* Number of lines of the input file.
MaxLines == 3
\* Largest Z word of the input lines (Z words range over -1..MaxCoord).
MaxCoord == 1

\* ------------------------------------------------------- program constants

\* rapid_rate default of GCodeSimulator / GCodeConverter (units per minute).
RapidRate == 5000
\* Fallback feed rate of a feed move with no F set (1.0 units per minute).
DefaultFeed == 1

\* Optional values: None is the empty sequence, Some(v) a one-element one.
None == <<>>
Some(v) == <<v>>

\* ------------------------------------------------------------------- text

Word(l, ds) == [l |-> l, neg |-> FALSE, ds |-> ds, sp |-> TRUE]
NegWord(l, ds) == [l |-> l, neg |-> TRUE, ds |-> ds, sp |-> TRUE]
Glued(w) == [w EXCEPT !.sp = FALSE]
Comment == [l |-> "(", neg |-> FALSE, ds |-> <<>>, sp |-> TRUE]

\* str.strip(): no white space after the last word.
Strip(toks) ==
  IF toks = <<>> THEN toks
  ELSE [toks EXCEPT ![Len(toks)] = [@ EXCEPT !.sp = FALSE]]

\* A line as readlines() returns it: its words and whether it ends in "\n".
Line(toks, nl) == [toks |-> Strip(toks), nl |-> nl]

\* int() of a digit string.
RECURSIVE DigitsVal(_)
DigitsVal(ds) ==
  IF ds = <<>> THEN 0
  ELSE 10 * DigitsVal(SubSeq(ds, 1, Len(ds) - 1)) + ds[Len(ds)]

\* The group (\d+) of G0*(\d+): the greedy 0* takes the leading zeros but
\* leaves one digit for the group.
RECURSIVE GGroup(_)
GGroup(ds) ==
  IF Len(ds) > 1 /\ ds[1] = 0 THEN GGroup(Tail(ds)) ELSE ds

Axes == {"X", "Y", "Z", "I", "J", "K", "R"}
Keys == {"G", "M", "F", "S"} \cup Axes

\* Does the pattern of field k match at word w?  G, M and S take digits
\* only; the axes and F take a signed number.
Matches(w, k) ==
  /\ w.l = k
  /\ w.ds # <<>>
  /\ (k \in {"G", "M", "S"} => ~w.neg)

FieldValue(w, k) ==
  IF k = "G" THEN DigitsVal(GGroup(w.ds))
  ELSE IF k \in {"M", "S"} THEN DigitsVal(w.ds)
  ELSE IF w.neg THEN 0 - DigitsVal(w.ds) ELSE DigitsVal(w.ds)

\* A search that keeps the last word the pattern matches.
LastMatch(code, k) ==
  CHOOSE i \in 1..Len(code) :
    /\ Matches(code[i], k)
    /\ \A j \in (i + 1)..Len(code) : ~Matches(code[j], k)

\* re.search: the first word the pattern matches.
FirstMatch(code, k) ==
  CHOOSE i \in 1..Len(code) :
    /\ Matches(code[i], k)
    /\ \A j \in 1..(i - 1) : ~Matches(code[j], k)

IsCode(w) == w.l # "("

\* GCodeSimulator.parse_line: a record of the fields present on the line.
parse_line(toks) ==
  LET code == SelectSeq(toks, IsCode)
      present == {k \in Keys : \E i \in 1..Len(code) : Matches(code[i], k)}
  IN IF code = <<>>
     THEN [type |-> "empty", f |-> [k \in {} |-> 0]]
     ELSE [type |-> "command",
           f |-> [k \in present |-> FieldValue(code[FirstMatch(code, k)], k)]]

Has(parsed, k) == k \in DOMAIN parsed.f

\* ---------------------------------------------------------------- simulator

\* MachineState() as constructed.
MachineState ==
  [x |-> 0, y |-> 0, z |-> 0,
   current_g |-> None, feed_rate |-> None, spindle_speed |-> None,
   absolute_mode |-> TRUE, units_mm |-> TRUE, plane |-> "XY",
   work_coordinate |-> "G54", total_time_seconds |-> 0]

Abs(n) == IF n < 0 THEN 0 - n ELSE n

\* Largest r in lo..hi with r * r <= n.
RECURSIVE ISqrt(_, _, _)
ISqrt(n, lo, hi) ==
  IF lo >= hi THEN lo
  ELSE LET mid == (lo + hi + 1) \div 2
       IN IF mid * mid <= n THEN ISqrt(n, mid, hi) ELSE ISqrt(n, lo, mid - 1)

\* (dx**2 + dy**2 + dz**2)**0.5, in 1/1000 unit.
Distance(dx, dy, dz) ==
  ISqrt((dx * dx + dy * dy + dz * dz) * 1000000, 0,
        1000 * (Abs(dx) + Abs(dy) + Abs(dz)))

\* ModalUpdate with a motion mode that lasts for its own line only.
ModalUpdate_NotSticky(s, parsed) ==
  IF Has(parsed, "G") /\ parsed.f["G"] \in {0, 1, 2, 3}
  THEN [s EXCEPT !.current_g = Some(parsed.f["G"])]
  ELSE [s EXCEPT !.current_g = None]

\* "Update modal settings": the G value of the line selects one branch.
ModalUpdate(s, parsed) ==
  IF ~Has(parsed, "G") THEN s
  ELSE LET g == parsed.f["G"]
       IN IF g \in {0, 1, 2, 3} THEN [s EXCEPT !.current_g = Some(g)]
          ELSE IF g = 90 THEN [s EXCEPT !.absolute_mode = TRUE]
          ELSE IF g = 91 THEN [s EXCEPT !.absolute_mode = FALSE]
          ELSE IF g = 21 THEN [s EXCEPT !.units_mm = TRUE]
          ELSE IF g = 20 THEN [s EXCEPT !.units_mm = FALSE]
          ELSE IF g = 17 THEN [s EXCEPT !.plane = "XY"]
          ELSE IF g = 18 THEN [s EXCEPT !.plane = "XZ"]
          ELSE IF g = 19 THEN [s EXCEPT !.plane = "YZ"]
          ELSE IF g = 54 THEN [s EXCEPT !.work_coordinate = "G54"]
          ELSE IF g = 55 THEN [s EXCEPT !.work_coordinate = "G55"]
          ELSE IF g = 56 THEN [s EXCEPT !.work_coordinate = "G56"]
          ELSE IF g = 57 THEN [s EXCEPT !.work_coordinate = "G57"]
          ELSE IF g = 58 THEN [s EXCEPT !.work_coordinate = "G58"]
          ELSE IF g = 59 THEN [s EXCEPT !.work_coordinate = "G59"]
          ELSE s

FeedUpdate(s, parsed) ==
  IF Has(parsed, "F") THEN [s EXCEPT !.feed_rate = Some(parsed.f["F"])] ELSE s

SpindleUpdate(s, parsed) ==
  IF Has(parsed, "S") THEN [s EXCEPT !.spindle_speed = Some(parsed.f["S"])]
  ELSE s

\* NewAxis taking a field of value 0 for an absent field.
NewAxis_ZeroIsAbsent(s, parsed, k, cur) ==
  IF Has(parsed, k) /\ parsed.f[k] # 0
  THEN IF s.absolute_mode THEN parsed.f[k] ELSE cur + parsed.f[k]
  ELSE cur

\* The candidate value of one axis: the raw value in absolute mode, the
\* current value plus the raw value in relative mode, the current value
\* when the line has no such field.
NewAxis(s, parsed, k, cur) ==
  IF Has(parsed, k)
  THEN IF s.absolute_mode THEN parsed.f[k] ELSE cur + parsed.f[k]
  ELSE cur

\* MoveTime dividing by every rate but zero.
MoveTime_NonZeroGuard(s, distance) ==
  LET rate == IF s.current_g = Some(0) THEN RapidRate
              ELSE IF s.feed_rate # None THEN s.feed_rate[1]
              ELSE DefaultFeed
  IN IF rate # 0 THEN (distance * 60) \div rate ELSE 0

\* "Determine Rate and Calculate Time", in milliseconds.
MoveTime(s, distance) ==
  LET rate == IF s.current_g = Some(0) THEN RapidRate
              ELSE IF s.feed_rate # None THEN s.feed_rate[1]
              ELSE DefaultFeed
  IN IF rate > 0 THEN (distance * 60) \div rate ELSE 0

\* Motion recording a move for every line run in a motion mode, also when
\* the candidate position is the current position.
Motion_AlwaysRecord(sim, s, parsed) ==
  IF s.current_g \notin {Some(0), Some(1), Some(2), Some(3)}
  THEN [state |-> s, move_history |-> sim.move_history, move_info |-> None]
  ELSE LET new_x == NewAxis(s, parsed, "X", s.x)
           new_y == NewAxis(s, parsed, "Y", s.y)
           new_z == NewAxis(s, parsed, "Z", s.z)
           distance == Distance(new_x - s.x, new_y - s.y, new_z - s.z)
           time_s == MoveTime(s, distance)
           info == [type |-> IF s.current_g = Some(0) THEN "rapid" ELSE "feed",
                    from |-> <<s.x, s.y, s.z>>,
                    to |-> <<new_x, new_y, new_z>>,
                    feed_rate |-> IF s.current_g # Some(0)
                                  THEN s.feed_rate ELSE None,
                    distance |-> distance,
                    time_s |-> time_s]
       IN [state |-> [s EXCEPT !.total_time_seconds = @ + time_s,
                               !.x = new_x, !.y = new_y, !.z = new_z],
           move_history |-> Append(sim.move_history, info),
           move_info |-> Some(info)]

\* Motion keeping rapid moves out of the move history.
Motion_UnrecordedRapid(sim, s, parsed) ==
  IF s.current_g = Some(0)
  THEN [Motion_AlwaysRecord(sim, s, parsed) EXCEPT
          !.move_history = sim.move_history]
  ELSE IF NewAxis(s, parsed, "X", s.x) = s.x
          /\ NewAxis(s, parsed, "Y", s.y) = s.y
          /\ NewAxis(s, parsed, "Z", s.z) = s.z
  THEN [state |-> s, move_history |-> sim.move_history, move_info |-> None]
  ELSE Motion_AlwaysRecord(sim, s, parsed)

\* "Execute motion": sim is the simulator, s its state after the modal, F
\* and S updates.
Motion(sim, s, parsed) ==
  IF s.current_g \notin {Some(0), Some(1), Some(2), Some(3)}
  THEN [state |-> s, move_history |-> sim.move_history, move_info |-> None]
  ELSE LET new_x == NewAxis(s, parsed, "X", s.x)
           new_y == NewAxis(s, parsed, "Y", s.y)
           new_z == NewAxis(s, parsed, "Z", s.z)
       IN IF new_x = s.x /\ new_y = s.y /\ new_z = s.z
          THEN [state |-> s, move_history |-> sim.move_history,
                move_info |-> None]
          ELSE LET distance == Distance(new_x - s.x, new_y - s.y, new_z - s.z)
                   time_s == MoveTime(s, distance)
                   info == [type |-> IF s.current_g = Some(0) THEN "rapid"
                                     ELSE "feed",
                            from |-> <<s.x, s.y, s.z>>,
                            to |-> <<new_x, new_y, new_z>>,
                            feed_rate |-> IF s.current_g # Some(0)
                                          THEN s.feed_rate ELSE None,
                            distance |-> distance,
                            time_s |-> time_s]
               IN [state |-> [s EXCEPT
                                !.total_time_seconds = @ + time_s,
                                !.x = new_x, !.y = new_y, !.z = new_z],
                   move_history |-> Append(sim.move_history, info),
                   move_info |-> Some(info)]

\* execute_line without the special case of G10 with a Z field.
execute_line_NoG10(sim, toks) ==
  Motion(sim,
         SpindleUpdate(FeedUpdate(ModalUpdate(sim.state, parse_line(toks)),
                                  parse_line(toks)), parse_line(toks)),
         parse_line(toks))

\* GCodeSimulator.execute_line on the simulator sim = [state, move_history]:
\* the simulator after the line, and the move it returns.
execute_line(sim, toks) ==
  LET parsed == parse_line(toks)
  IN IF Has(parsed, "G") /\ parsed.f["G"] = 10 /\ Has(parsed, "Z")
     THEN [state |-> [sim.state EXCEPT !.z = parsed.f["Z"]],
           move_history |-> sim.move_history, move_info |-> None]
     ELSE Motion(sim,
                 SpindleUpdate(FeedUpdate(ModalUpdate(sim.state, parsed),
                                          parsed), parsed),
                 parsed)

\* ---------------------------------------------------------------- converter

VARIABLES
  z_safe,                  \* GCodeConverter.z_safe
  conservative,            \* GCodeConverter.conservative
  state,                   \* simulator.state, the live MachineState
  move_history,            \* simulator.move_history
  lines,                   \* the input lines read so far
  output_lines,            \* convert_file: output_lines
  conversions,             \* convert_file: conversions
  was_prev_line_converted, \* convert_file: was_prev_line_converted
  converted,               \* convert_file: converted, of the last iteration
  line_for_execution,      \* convert_file: line_for_execution, likewise
  move_info,               \* the move the last execute_line returned
  state_before,            \* simulator.state when the last iteration began
  history_before,          \* simulator.move_history at that moment
  entry_state,             \* self.state when the last execute_line began
  entry_history,           \* self.move_history at that moment
  parsed_line,             \* the ParsedLine of the last line handled
  orig_state,              \* state of a fresh simulator run on the input
  orig_move_info           \* the move its last execute_line returned

vars == <<z_safe, conservative, state, move_history, lines, output_lines,
          conversions, was_prev_line_converted, converted,
          line_for_execution, move_info, state_before, history_before,
          entry_state, entry_history, parsed_line, orig_state,
          orig_move_info>>

\* should_convert_to_rapid without the check of the target Z.
should_convert_NoTargetCheck(parsed, st) ==
  LET current_g == IF Has(parsed, "G") THEN Some(parsed.f["G"])
                   ELSE st.current_g
  IN /\ current_g = Some(1)
     /\ \E k \in {"X", "Y", "Z"} : Has(parsed, k)
     /\ st.z >= z_safe

\* should_convert_to_rapid with the aggressive rule in either mode.
should_convert_IgnoreConservative(parsed, st) ==
  LET current_g == IF Has(parsed, "G") THEN Some(parsed.f["G"])
                   ELSE st.current_g
      target_z == IF Has(parsed, "Z")
                  THEN IF st.absolute_mode THEN parsed.f["Z"]
                       ELSE st.z + parsed.f["Z"]
                  ELSE st.z
  IN /\ current_g = Some(1)
     /\ \E k \in {"X", "Y", "Z"} : Has(parsed, k)
     /\ st.z >= z_safe /\ target_z >= z_safe

\* should_convert_to_rapid taking a line with a Z field only when Z rises.
should_convert_StrictlyUp(parsed, st) ==
  LET current_g == IF Has(parsed, "G") THEN Some(parsed.f["G"])
                   ELSE st.current_g
      target_z == IF Has(parsed, "Z")
                  THEN IF st.absolute_mode THEN parsed.f["Z"]
                       ELSE st.z + parsed.f["Z"]
                  ELSE st.z
  IN /\ current_g = Some(1)
     /\ \E k \in {"X", "Y", "Z"} : Has(parsed, k)
     /\ st.z >= z_safe /\ target_z >= z_safe
     /\ \/ conservative /\ ~Has(parsed, "Z")
        \/ Has(parsed, "Z") /\ target_z > st.z
        \/ ~conservative

\* GCodeConverter.should_convert_to_rapid: reads parsed and st only.
should_convert_to_rapid(parsed, st) ==
  LET current_g == IF Has(parsed, "G") THEN Some(parsed.f["G"])
                   ELSE st.current_g
      target_z == IF Has(parsed, "Z")
                  THEN IF st.absolute_mode THEN parsed.f["Z"]
                       ELSE st.z + parsed.f["Z"]
                  ELSE st.z
  IN IF current_g # Some(1) THEN FALSE
     ELSE IF ~(\E k \in {"X", "Y", "Z"} : Has(parsed, k)) THEN FALSE
     ELSE IF st.z >= z_safe /\ target_z >= z_safe
          THEN IF conservative /\ ~Has(parsed, "Z") THEN TRUE
               ELSE IF Has(parsed, "Z") /\ target_z >= st.z THEN TRUE
               ELSE IF ~conservative THEN TRUE
               ELSE FALSE
          ELSE FALSE

\* \b before / after word i: the neighbouring character is not a word
\* character (start or end of the text, white space, a parenthesis).
BoundaryBefore(toks, i) == i = 1 \/ toks[i - 1].sp \/ toks[i - 1].l = "("
BoundaryAfter(toks, i) ==
  i = Len(toks) \/ toks[i].sp \/ toks[i + 1].l = "("

\* G0*\d+ at word w.
IsGWord(w) == w.l = "G" /\ ~w.neg /\ w.ds # <<>>
\* G0*1 at word w, with no digit after the 1.
IsG1Word(w) == IsGWord(w) /\ GGroup(w.ds) = <<1>>
IsFWord(w) == w.l = "F" /\ w.ds # <<>>

\* re.search(r'\bG0*\d+', stripped)
has_g_command(toks) ==
  \E i \in 1..Len(toks) : IsGWord(toks[i]) /\ BoundaryBefore(toks, i)

\* re.sub(r'\bG0*1\b', 'G0', stripped): every G1 word standing alone.
ReplaceG1(toks) ==
  [i \in 1..Len(toks) |->
     IF IsG1Word(toks[i]) /\ BoundaryBefore(toks, i) /\ BoundaryAfter(toks, i)
     THEN [toks[i] EXCEPT !.ds = <<0>>]
     ELSE toks[i]]

\* re.sub(r'\s*F[-+]?\d*\.?\d+', '', new_line): every F word goes, with the
\* white space before it; what followed it now follows the word before.
RECURSIVE StripF(_)
StripF(toks) ==
  IF toks = <<>> THEN toks
  ELSE LET init == SubSeq(toks, 1, Len(toks) - 1)
           last == toks[Len(toks)]
       IN IF IsFWord(last)
          THEN LET r == StripF(init)
               IN IF r = <<>> THEN r
                  ELSE [r EXCEPT ![Len(r)] = [@ EXCEPT !.sp = last.sp]]
          ELSE Append(StripF(init), last)

\* convert_line trying the line on the live simulator before deciding.
convert_line_Executing(line, sim) ==
  LET stripped == line.toks
      parsed == parse_line(stripped)
      tried == execute_line(sim, stripped)
  IN IF parsed.type = "empty"
     THEN [new_line |-> line, converted |-> FALSE, sim |-> sim]
     ELSE IF ~should_convert_to_rapid(parsed, sim.state)
     THEN [new_line |-> line, converted |-> FALSE, sim |-> sim]
     ELSE LET g0 == IF has_g_command(stripped) THEN ReplaceG1(stripped)
                    ELSE <<Word("G", <<0>>)>> \o stripped
          IN [new_line |-> [toks |-> StripF(g0), nl |-> line.nl],
              converted |-> TRUE,
              sim |-> [state |-> tried.state,
                       move_history |-> tried.move_history]]

\* GCodeConverter.convert_line, called with the live state of the simulator
\* sim = [state, move_history]: the new line, whether it was converted, and
\* the simulator as the call leaves it.
convert_line(line, sim) ==
  LET stripped == line.toks
      parsed == parse_line(stripped)
  IN IF parsed.type = "empty"
     THEN [new_line |-> line, converted |-> FALSE, sim |-> sim]
     ELSE IF ~should_convert_to_rapid(parsed, sim.state)
     THEN [new_line |-> line, converted |-> FALSE, sim |-> sim]
     ELSE LET g0 == IF has_g_command(stripped) THEN ReplaceG1(stripped)
                    ELSE <<Word("G", <<0>>)>> \o stripped
          IN [new_line |-> [toks |-> StripF(g0), nl |-> line.nl],
              converted |-> TRUE, sim |-> sim]

\* convert_file without the injection of G1.
InjectG1_Never(line, new_line, conv, prev_converted) == new_line

\* "Explicit G1 Injection": the line of an unconverted modal motion that
\* follows a converted line, else the line convert_line returned.
InjectG1(line, new_line, conv, prev_converted) ==
  LET parsed == parse_line(line.toks)
      is_motion == \E k \in {"X", "Y", "Z", "I", "J", "K"} : Has(parsed, k)
      has_no_g_code == ~Has(parsed, "G")
  IN IF ~conv /\ is_motion /\ has_no_g_code /\ prev_converted
     THEN [toks |-> <<Word("G", <<1>>)>> \o line.toks, nl |-> line.nl]
     ELSE new_line

\* One iteration of the loop of convert_file over the input line `line`:
\* r is what convert_line returns, new_line the line appended to the output
\* and executed, e the simulator after execute_line.
ConvertFileLine(line) ==
  \E r \in {convert_line(line, [state |-> state,
                                move_history |-> move_history])} :
  \E new_line \in {InjectG1(line, r.new_line, r.converted,
                            was_prev_line_converted)} :
  \E e \in {execute_line(r.sim, new_line.toks)} :
  \E o \in {execute_line([state |-> orig_state, move_history |-> <<>>],
                         line.toks)} :
     /\ lines' = Append(lines, line)
     /\ output_lines' = Append(output_lines, new_line)
     /\ conversions' =
          IF r.converted
          THEN Append(conversions,
                      [line_num |-> Len(lines) + 1, original |-> line.toks,
                       converted |-> new_line.toks,
                       z_position |-> r.sim.state.z])
          ELSE conversions
     /\ state' = e.state
     /\ move_history' = e.move_history
     /\ move_info' = e.move_info
     /\ converted' = r.converted
     /\ line_for_execution' = new_line
     /\ was_prev_line_converted' = r.converted
     /\ state_before' = state
     /\ history_before' = move_history
     /\ entry_state' = r.sim.state
     /\ entry_history' = r.sim.move_history
     /\ parsed_line' = parse_line(line.toks)
     /\ orig_state' = o.state
     /\ orig_move_info' = o.move_info
     /\ UNCHANGED <<z_safe, conservative>>

\* 'total_lines': len(lines)
total_lines == Len(lines)

\* A direct call simulator.execute_line(line).
ExecuteLine(line) ==
  \E e \in {execute_line([state |-> state, move_history |-> move_history],
                         line.toks)} :
     /\ state' = e.state
     /\ move_history' = e.move_history
     /\ move_info' = e.move_info
     /\ line_for_execution' = line
     /\ entry_state' = state
     /\ entry_history' = move_history
     /\ parsed_line' = parse_line(line.toks)
     /\ UNCHANGED <<z_safe, conservative, lines, output_lines, conversions,
                    was_prev_line_converted, converted, state_before,
                    history_before, orig_state, orig_move_info>>

\* ------------------------------------------------------------------ inputs

G(ds) == Word("G", ds)
X(n) == Word("X", <<n>>)
Y(n) == Word("Y", <<n>>)
Z(n) == IF n < 0 THEN NegWord("Z", <<0 - n>>) ELSE Word("Z", <<n>>)
F(ds) == Word("F", ds)

\* The Z words of the input lines: below, at and above the origin.
ZVals == {0 - 1, 0, MaxCoord}

\* The texts of the lines of the input file: blank, comment only,
\* "M03 S100", "G91", "G01 X1 F60", "G1X1 F60", "Y1", "Z-1", "I1" and
\* "G1 Z<v>".
Texts ==
  {<<>>,
   <<Comment>>,
   <<Word("M", <<0, 3>>), Word("S", <<1, 0, 0>>)>>,
   <<G(<<9, 1>>)>>,
   <<G(<<0, 1>>), X(1), F(<<6, 0>>)>>,
   <<Glued(G(<<1>>)), X(1), F(<<6, 0>>)>>,
   <<Y(1)>>,
   <<Z(0 - 1)>>,
   <<Word("I", <<1>>)>>}
  \cup {<<G(<<1>>), Z(v)>> : v \in ZVals}

\* The texts executed on a simulator driven directly.
SimTexts ==
  {<<>>,
   <<G(<<9, 1>>)>>,
   <<G(<<9, 0>>), G(<<1>>), X(1)>>,
   <<G(<<1>>), X(1), F(<<6, 0>>)>>,
   <<G(<<0>>), Z(1)>>,
   <<G(<<3>>), X(1), Y(1)>>,
   <<G(<<1, 0>>), Z(1), F(<<3, 0>>)>>,
   <<F(<<0>>)>>,
   <<NegWord("F", <<5>>)>>,
   <<Y(1)>>,
   <<X(0)>>,
   <<Z(0 - 1)>>}

\* Safe heights of the configuration.
ZSafes == {0, 1}

\* Number of moves recorded by a simulator driven directly.
MaxMoves == 2

\* ------------------------------------------------------------ specification

\* The converter as constructed, but for its configuration and the state of
\* its simulator.
Fresh ==
  /\ move_history = <<>>
  /\ lines = <<>>
  /\ output_lines = <<>>
  /\ conversions = <<>>
  /\ was_prev_line_converted = FALSE
  /\ converted = FALSE
  /\ line_for_execution = Line(<<>>, TRUE)
  /\ move_info = None
  /\ state_before = MachineState
  /\ history_before = <<>>
  /\ entry_state = MachineState
  /\ entry_history = <<>>
  /\ parsed_line = parse_line(<<>>)
  /\ orig_state = MachineState
  /\ orig_move_info = None

Init ==
  /\ z_safe \in ZSafes
  /\ conservative \in BOOLEAN
  /\ state = MachineState
  /\ Fresh

\* convert_file: the loop over readlines(), where every line but the last
\* ends in a newline.
Next ==
  /\ Len(lines) < MaxLines
  /\ lines # <<>> => lines[Len(lines)].nl
  /\ \E t \in Texts, nl \in BOOLEAN : ConvertFileLine(Line(t, nl))

Spec == Init /\ [][Next]_vars

\* A simulator executing lines one by one, outside convert_file.
SimInit == Init /\ z_safe = 0 /\ conservative

SimNext ==
  /\ Len(move_history) < MaxMoves
  /\ \E t \in SimTexts : ExecuteLine(Line(t, TRUE))

SimSpec == SimInit /\ [][SimNext]_vars

\* should_convert_to_rapid as a function of its inputs: a parsed line and a
\* machine state drawn from the states a simulator can be in.
DecideStates ==
  {[MachineState EXCEPT !.z = z, !.current_g = g, !.absolute_mode = a] :
     z \in (0 - 1)..(MaxCoord + 1),
     g \in {None, Some(0), Some(1), Some(2)},
     a \in BOOLEAN}

DecideTexts ==
  Texts \cup {<<G(<<0>>), X(1)>>, <<G(<<2>>), X(1)>>, <<X(1), Z(0)>>,
              <<Z(MaxCoord)>>, <<G(<<1>>), Word("I", <<1>>)>>}

Decide(t) ==
  /\ lines' = <<Line(t, TRUE)>>
  /\ converted' = should_convert_to_rapid(parse_line(Strip(t)), state)
  /\ parsed_line' = parse_line(Strip(t))
  /\ UNCHANGED <<z_safe, conservative, state, move_history, output_lines,
                 conversions, was_prev_line_converted, line_for_execution,
                 move_info, state_before, history_before, entry_state,
                 entry_history, orig_state, orig_move_info>>

DecideInit ==
  /\ z_safe \in ZSafes
  /\ conservative \in BOOLEAN
  /\ state \in DecideStates
  /\ Fresh

DecideNext == \E t \in DecideTexts : Decide(t)

DecideSpec == DecideInit /\ [][DecideNext]_vars

\* parse_line called once, on any line: it reads and writes no state.

\* Number of words of a parsed line.
MaxWords == 2

\* G and M words with and without leading zeros, axis words, a comment.
ParseWords ==
  {G(<<0>>), G(<<0, 0>>), G(<<0, 0, 0>>), G(<<1>>), G(<<0, 1>>),
   G(<<0, 1, 0>>), G(<<1, 0>>), Word("M", <<0, 3>>), Word("M", <<3>>),
   Word("M", <<0, 3, 0>>), X(0), X(1), Z(0 - 1), Comment}

RECURSIVE WordSeqs(_)
WordSeqs(n) ==
  IF n = 0 THEN {<<>>}
  ELSE WordSeqs(n - 1) \cup
       {Append(t, w) : t \in {u \in WordSeqs(n - 1) : Len(u) = n - 1},
                       w \in ParseWords}

ParseTexts == WordSeqs(MaxWords)

Parse(t) ==
  /\ lines = <<>>
  /\ lines' = <<Line(t, TRUE)>>
  /\ parsed_line' = parse_line(Strip(t))
  /\ UNCHANGED <<z_safe, conservative, state, move_history, output_lines,
                 conversions, was_prev_line_converted, converted,
                 line_for_execution, move_info, state_before, history_before,
                 entry_state, entry_history, orig_state, orig_move_info>>

ParseInit == SimInit

ParseNext == \E t \in ParseTexts : Parse(t)

ParseSpec == ParseInit /\ [][ParseNext]_vars

\* ------------------------------------------------------------------ claims

\* The last input line read and its fields.
LastLine == lines[Len(lines)]
LastParsed == parse_line(LastLine.toks)
ExecParsed == parse_line(line_for_execution.toks)

IsMotionLine(p) == \E k \in {"X", "Y", "Z", "I", "J", "K"} : Has(p, k)

\* The Z a line asks for from the state st: the Z word in absolute mode, the
\* current Z plus the Z word in relative mode, the current Z without a Z word.
TargetZOf(p, st) ==
  IF ~Has(p, "Z") THEN st.z
  ELSE IF st.absolute_mode THEN p.f["Z"] ELSE st.z + p.f["Z"]

C2_NoModalRapidAfterConversion ==
  (/\ conversions # <<>>
   /\ ~converted
   /\ ~Has(LastParsed, "G")
   /\ IsMotionLine(LastParsed))
  => state.current_g # Some(0)

\* C3: the unconverted modal motion line that directly follows a converted
\* line is emitted with G1 prepended, the simulator executes that same text,
\* its motion mode is 1 afterwards and a move it records is a feed move.
FollowsConvertedLine ==
  /\ Len(lines) >= 2
  /\ \E k \in 1..Len(conversions) : conversions[k].line_num = Len(lines) - 1
  /\ ~converted
  /\ ~Has(LastParsed, "G")
  /\ IsMotionLine(LastParsed)

C3_G1Injected ==
  FollowsConvertedLine =>
    /\ output_lines[Len(lines)] =
         [toks |-> <<Word("G", <<1>>)>> \o LastLine.toks, nl |-> LastLine.nl]
    /\ line_for_execution = output_lines[Len(lines)]
    /\ Has(ExecParsed, "G") /\ ExecParsed.f["G"] = 1
    /\ state.current_g = Some(1)
    /\ move_info # None => move_info[1].type = "feed"

\* A G1-injected line that moved the machine.
C3_Witness == FollowsConvertedLine /\ move_info # None

\* C4: should_convert_to_rapid is true exactly when the effective G is 1, one
\* of X, Y, Z is present, the current Z and the target Z are at or above
\* z_safe, and conservative mode is off or the line has no Z field or the
\* target Z is not below the current Z.
C4Rule(p, st) ==
  LET g == IF Has(p, "G") THEN Some(p.f["G"]) ELSE st.current_g
  IN /\ g = Some(1)
     /\ Has(p, "X") \/ Has(p, "Y") \/ Has(p, "Z")
     /\ st.z >= z_safe
     /\ TargetZOf(p, st) >= z_safe
     /\ ~conservative \/ ~Has(p, "Z") \/ TargetZOf(p, st) >= st.z

C4_ShouldConvertIff ==
  lines # <<>> => (converted <=> C4Rule(LastParsed, state))

\* A modal line with a Z field, accepted in conservative and relative mode.
C4_Witness ==
  /\ lines # <<>>
  /\ converted
  /\ conservative
  /\ ~state.absolute_mode
  /\ ~Has(LastParsed, "G")
  /\ Has(LastParsed, "Z")

\* C5 as stated: in conservative mode a converted line with a Z field has a
\* target Z strictly above the current Z.
C5_StrictlyUpwardOnly ==
  (converted /\ conservative /\ Has(LastParsed, "Z"))
  => TargetZOf(LastParsed, state_before) > state_before.z

\* C5 as amended: in conservative mode a converted line has no Z field or a
\* target Z at or above the current Z, and no converted line lowers Z.
C5_NonDownwardOnly ==
  (converted /\ conservative) =>
    /\ ~Has(LastParsed, "Z")
         \/ TargetZOf(LastParsed, state_before) >= state_before.z
    /\ state.z >= state_before.z

\* A converted line whose Z field equals the current Z, in conservative mode.
C5_Witness ==
  /\ converted
  /\ conservative
  /\ Has(LastParsed, "Z")
  /\ TargetZOf(LastParsed, state_before) = state_before.z

\* The G0 conversion of a line: G0 in place of its G1 word, or G0 prepended
\* when the line has no G word, and no F word.
RECURSIVE WithoutF(_)
WithoutF(toks) ==
  IF toks = <<>> THEN toks
  ELSE IF toks[1].l = "F"
       THEN WithoutF(Tail(toks))
       ELSE <<toks[1]>> \o WithoutF(Tail(toks))

Letters(toks) == [i \in 1..Len(toks) |-> toks[i].l]
Numbers(toks) ==
  [i \in 1..Len(toks) |->
     IF toks[i].l = "G" THEN DigitsVal(toks[i].ds)
     ELSE IF toks[i].neg THEN 0 - DigitsVal(toks[i].ds)
     ELSE DigitsVal(toks[i].ds)]

IsG0Conversion(out, in) ==
  LET want == IF \E i \in 1..Len(in.toks) : in.toks[i].l = "G"
              THEN [i \in 1..Len(in.toks) |->
                      IF in.toks[i].l = "G" /\ DigitsVal(in.toks[i].ds) = 1
                      THEN G(<<0>>) ELSE in.toks[i]]
              ELSE <<G(<<0>>)>> \o in.toks
  IN /\ Letters(out.toks) = Letters(WithoutF(want))
     /\ Numbers(out.toks) = Numbers(WithoutF(want))

IsG1Injection(out, in) ==
  out.toks = <<Word("G", <<1>>)>> \o in.toks

\* C6: one output line per input line, in order; total_lines is the input
\* line count; each output line is the input line, its G0 conversion or its
\* G1-injected form and ends in a newline exactly when the input line does;
\* blank and comment-only lines are emitted unchanged and are not converted.
C6_LineForLine ==
  /\ Len(output_lines) = Len(lines)
  /\ total_lines = Len(lines)
  /\ \A i \in 1..Len(lines) :
       /\ output_lines[i].nl = lines[i].nl
       /\ \/ output_lines[i] = lines[i]
          \/ IsG0Conversion(output_lines[i], lines[i])
          \/ IsG1Injection(output_lines[i], lines[i])
       /\ parse_line(lines[i].toks).type = "empty" =>
            /\ output_lines[i] = lines[i]
            /\ \A k \in 1..Len(conversions) : conversions[k].line_num # i

\* Line i was rewritten from a feed move to a rapid move.
RewrittenToRapid(i) ==
  /\ output_lines[i] # lines[i]
  /\ Has(parse_line(output_lines[i].toks), "G")
  /\ parse_line(output_lines[i].toks).f["G"] = 0

\* C7: conversions holds one record for each line rewritten from feed to
\* rapid and none for any other line, in increasing line order; line_num is
\* the 1-based index of the line and z_position the Z of the simulator
\* before the line is executed.
C7_OneRecordPerRewrite ==
  /\ \A i \in 1..Len(lines) :
       Cardinality({k \in 1..Len(conversions) : conversions[k].line_num = i})
         = IF RewrittenToRapid(i) THEN 1 ELSE 0
  /\ \A k \in 1..Len(conversions) : conversions[k].line_num \in 1..Len(lines)
  /\ \A k \in 1..(Len(conversions) - 1) :
       conversions[k].line_num < conversions[k + 1].line_num
  /\ converted =>
       /\ conversions # <<>>
       /\ conversions[Len(conversions)].line_num = Len(lines)
       /\ conversions[Len(conversions)].z_position = state_before.z

\* The line executed last was G10 with a Z field.
IsG10Z(p) == Has(p, "G") /\ p.f["G"] = 10 /\ Has(p, "Z")

\* C8: G10 with a Z field sets z to the Z value, also in relative mode,
\* leaves every other field of the state and the move history unchanged and
\* returns no move; a move starts from the current position, so the Z delta
\* of the next move is taken from the new Z.
C8_G10SetsZOnly ==
  /\ IsG10Z(ExecParsed) =>
       /\ state = [entry_state EXCEPT !.z = ExecParsed.f["Z"]]
       /\ move_history = entry_history
       /\ move_info = None
  /\ move_info # None =>
       /\ move_info[1].from = <<entry_state.x, entry_state.y, entry_state.z>>
       /\ move_info[1].to = <<state.x, state.y, state.z>>

\* G10 with Z and F executed in relative mode after a move: Z changes, the
\* feed rate does not.
C8_Witness ==
  /\ IsG10Z(ExecParsed)
  /\ Has(ExecParsed, "F")
  /\ ~entry_state.absolute_mode
  /\ entry_history # <<>>
  /\ state.z # entry_state.z
  /\ state.feed_rate # Some(ExecParsed.f["F"])

\* C9: attempting the conversion leaves the machine state and the move
\* history as they were: execute_line starts from the state the decision was
\* taken against.
C9_DecisionLeavesSimulator ==
  lines # <<>> =>
    /\ entry_state = state_before
    /\ entry_history = history_before

\* A converted line whose execution then moved the machine.
C9_Witness ==
  /\ converted
  /\ state # state_before
  /\ move_history # history_before

IsMotionG(p) == Has(p, "G") /\ p.f["G"] \in {0, 1, 2, 3}

\* C10: current_g changes only on a line whose G code is 0, 1, 2 or 3, which
\* sets it; any other line runs in the mode it found, so a Y word after a G1
\* line moves Y and is recorded as a feed move.
C10_ModalMotionMode ==
  /\ state.current_g # entry_state.current_g => IsMotionG(ExecParsed)
  /\ IsMotionG(ExecParsed) => state.current_g = Some(ExecParsed.f["G"])
  /\ (~IsMotionG(ExecParsed) /\ move_info # None) =>
       move_info[1].type =
         IF entry_state.current_g = Some(0) THEN "rapid" ELSE "feed"
  /\ (/\ entry_state.current_g = Some(1)
      /\ ~Has(ExecParsed, "G")
      /\ Has(ExecParsed, "Y")) =>
       LET new_y == IF entry_state.absolute_mode THEN ExecParsed.f["Y"]
                    ELSE entry_state.y + ExecParsed.f["Y"]
       IN /\ state.y = new_y
          /\ state.current_g = Some(1)
          /\ new_y # entry_state.y =>
               move_info # None /\ move_info[1].type = "feed"

\* A line "Y1" after a G1 line: Y moved, recorded as a feed move.
C10_Witness ==
  /\ entry_state.current_g = Some(1)
  /\ ~Has(ExecParsed, "G")
  /\ Has(ExecParsed, "Y")
  /\ state.y # entry_state.y
  /\ move_info # None
  /\ move_info[1].type = "feed"

AxisOf(st, k) == IF k = "X" THEN st.x ELSE IF k = "Y" THEN st.y ELSE st.z

\* The value the fields of the line executed last give axis k.
AxisByField(k) ==
  IF ~Has(ExecParsed, k) THEN AxisOf(entry_state, k)
  ELSE IF state.absolute_mode THEN ExecParsed.f[k]
  ELSE AxisOf(entry_state, k) + ExecParsed.f[k]

\* C11 as stated: on every executed line an axis without a field keeps its
\* value and an axis with a field becomes the raw value in absolute mode and
\* the current value plus the raw value in relative mode.
C11_AxesFollowFields ==
  \A k \in {"X", "Y", "Z"} : AxisOf(state, k) = AxisByField(k)

\* C11 as amended: an axis without a field keeps its value on every line; an
\* axis with a field follows the field when a motion mode is active and the
\* line is not G10 with Z; with no motion mode active no axis moves.
C11_AxesFollowFieldsInMotion ==
  \A k \in {"X", "Y", "Z"} :
    /\ ~Has(ExecParsed, k) => AxisOf(state, k) = AxisOf(entry_state, k)
    /\ (state.current_g # None /\ ~IsG10Z(ExecParsed)) =>
         AxisOf(state, k) = AxisByField(k)
    /\ (state.current_g = None /\ ~IsG10Z(ExecParsed)) =>
         AxisOf(state, k) = AxisOf(entry_state, k)

\* A line "X0" in absolute mode taking X from 1 to 0 while Y keeps its value.
C11_Witness ==
  /\ state.current_g # None
  /\ state.absolute_mode
  /\ Has(ExecParsed, "X") /\ ExecParsed.f["X"] = 0
  /\ ~Has(ExecParsed, "Y")
  /\ entry_state.x # 0
  /\ state.x = 0
  /\ state.y = entry_state.y

\* The values of all the G words of the line executed last.
ExecGValues ==
  {DigitsVal(line_for_execution.toks[i].ds) :
     i \in {j \in 1..Len(line_for_execution.toks) :
              line_for_execution.toks[j].l = "G"}}

\* C12: every G value of a line that carries G values of several modal
\* families is applied (motion mode, coordinate mode, units, plane, work
\* coordinate) before the move of the line is computed.
C12_EveryModalFamilyApplied ==
  ~IsG10Z(ExecParsed) =>
    /\ \A g \in ExecGValues \cap {0, 1, 2, 3} : state.current_g = Some(g)
    /\ 90 \in ExecGValues => state.absolute_mode
    /\ 91 \in ExecGValues => ~state.absolute_mode
    /\ 21 \in ExecGValues => state.units_mm
    /\ 20 \in ExecGValues => ~state.units_mm
    /\ 17 \in ExecGValues => state.plane = "XY"
    /\ 18 \in ExecGValues => state.plane = "XZ"
    /\ 19 \in ExecGValues => state.plane = "YZ"
    /\ 54 \in ExecGValues => state.work_coordinate = "G54"
    /\ 55 \in ExecGValues => state.work_coordinate = "G55"
    /\ ExecGValues \cap {0, 1, 2, 3} # {} =>
         \A k \in {"X", "Y", "Z"} : AxisOf(state, k) = AxisByField(k)

Position(st) == <<st.x, st.y, st.z>>

\* The candidate position of the line executed last.
Candidate == <<AxisByField("X"), AxisByField("Y"), AxisByField("Z")>>

\* The line executed last appended exactly one record, the one it returned.
AppendedOne ==
  /\ Len(move_history) = Len(entry_history) + 1
  /\ SubSeq(move_history, 1, Len(entry_history)) = entry_history
  /\ move_info = Some(move_history[Len(move_history)])

AppendedNone == move_history = entry_history /\ move_info = None

\* C13 as stated: one MoveRecord exactly when the active motion mode is in
\* {0,1,2,3} and the candidate position differs from the current one, none
\* otherwise; the record is rapid iff the mode is 0, its feed_rate is null
\* exactly for rapid records, and it runs from the position before the line
\* to the position after it.
C13_OneRecordPerMove ==
  /\ IF state.current_g # None /\ Candidate # Position(entry_state)
     THEN AppendedOne ELSE AppendedNone
  /\ move_info # None =>
       /\ move_info[1].type = "rapid" <=> state.current_g = Some(0)
       /\ move_info[1].feed_rate = None <=> move_info[1].type = "rapid"
       /\ move_info[1].from = Position(entry_state)
       /\ move_info[1].to = Position(state)

\* C13 as amended: a line that is G10 with Z appends no record; any other
\* line appends exactly one record when a motion mode is active and the
\* candidate position differs, and none otherwise. The record is rapid iff
\* the mode is 0; the feed_rate of a rapid record is null and that of a feed
\* record is the feed rate of the state, null when none was ever set; the
\* record runs from the position before the line to the position after it.
C13_OneRecordPerMoveExceptG10 ==
  /\ IF /\ ~IsG10Z(ExecParsed)
        /\ state.current_g # None
        /\ Candidate # Position(entry_state)
     THEN AppendedOne ELSE AppendedNone
  /\ move_info # None =>
       /\ move_info[1].type \in {"rapid", "feed"}
       /\ move_info[1].type = "rapid" <=> state.current_g = Some(0)
       /\ move_info[1].type = "rapid" => move_info[1].feed_rate = None
       /\ move_info[1].type = "feed" =>
            move_info[1].feed_rate = state.feed_rate
       /\ move_info[1].from = Position(entry_state)
       /\ move_info[1].to = Position(state)

\* A rapid move made while a feed rate is set: one record, rapid, with a
\* null feed_rate, from the old position to the new one.
C13_Witness ==
  /\ AppendedOne
  /\ state.current_g = Some(0)
  /\ state.feed_rate # None
  /\ move_info[1].type = "rapid"
  /\ move_info[1].feed_rate = None
  /\ Position(state) # Position(entry_state)

\* The rate of the move the line executed last made.
RateOfMove ==
  IF state.current_g = Some(0) THEN RapidRate
  ELSE IF state.feed_rate # None THEN state.feed_rate[1]
  ELSE DefaultFeed

\* C14: total_time_seconds never decreases, whatever feed rate is set (zero,
\* negative or none); a move at a rate of zero adds no time and still updates
\* the position; a feed move with no feed rate set takes its time from the
\* fallback rate 1.0.
C14_TimeNeverDecreases ==
  /\ state.total_time_seconds >= entry_state.total_time_seconds
  /\ state.total_time_seconds >= 0
  /\ move_info # None =>
       /\ state.total_time_seconds =
            entry_state.total_time_seconds + move_info[1].time_s
       /\ RateOfMove <= 0 =>
            /\ move_info[1].time_s = 0
            /\ Position(state) = move_info[1].to
            /\ Position(state) # Position(entry_state)
       /\ (move_info[1].type = "feed" /\ state.feed_rate = None) =>
            /\ DefaultFeed = 1
            /\ move_info[1].time_s = move_info[1].distance * 60

\* A feed move made at feed rate 0: no time added, position updated.
C14_Witness ==
  /\ move_info # None
  /\ move_info[1].type = "feed"
  /\ state.feed_rate = Some(0)
  /\ state.total_time_seconds = entry_state.total_time_seconds
  /\ Position(state) # Position(entry_state)

\* The words of the line parsed last that carry letter k and a number.
WordsOf(k) ==
  {i \in 1..Len(LastLine.toks) :
     LastLine.toks[i].l = k /\ LastLine.toks[i].ds # <<>>}

FirstWordOf(k) ==
  LastLine.toks[CHOOSE i \in WordsOf(k) : \A j \in WordsOf(k) : i <= j]

\* The number a digit string denotes; leading zeros add nothing.
RECURSIVE NumberOf(_)
NumberOf(ds) ==
  IF ds = <<>> THEN 0
  ELSE ds[1] * 10 ^ (Len(ds) - 1) + NumberOf(Tail(ds))

\* C15: the G and M fields are the numbers of the G and M words whatever
\* their leading zeros (G0, G00, G000 give 0; G1, G01 give 1; G010 gives 10;
\* M03 gives 3), and a letter that occurs more than once on the line takes
\* its field from its first occurrence.
C15_LeadingZerosFirstWins ==
  Len(lines) = 1 =>
    /\ \A k \in {"G", "M", "X", "Z"} :
         /\ Has(parsed_line, k) <=> WordsOf(k) # {}
         /\ Has(parsed_line, k) =>
              parsed_line.f[k] =
                IF FirstWordOf(k).neg THEN 0 - NumberOf(FirstWordOf(k).ds)
                ELSE NumberOf(FirstWordOf(k).ds)
    /\ (WordsOf("G") # {} /\ FirstWordOf("G").ds \in {<<0>>, <<0, 0>>, <<0, 0, 0>>})
         => parsed_line.f["G"] = 0
    /\ (WordsOf("G") # {} /\ FirstWordOf("G").ds \in {<<1>>, <<0, 1>>})
         => parsed_line.f["G"] = 1
    /\ (WordsOf("G") # {} /\ FirstWordOf("G").ds = <<0, 1, 0>>)
         => parsed_line.f["G"] = 10
    /\ (WordsOf("M") # {} /\ FirstWordOf("M").ds = <<0, 3>>)
         => parsed_line.f["M"] = 3

\* The line "G01 G0": two G words, the first with a leading zero; G is 1.
C15_Witness ==
  /\ Len(lines) = 1
  /\ Len(LastLine.toks) = 2
  /\ LastLine.toks[1].l = "G" /\ LastLine.toks[1].ds = <<0, 1>>
  /\ LastLine.toks[2].l = "G" /\ LastLine.toks[2].ds = <<0>>
  /\ parsed_line.f["G"] = 1

\* The kind of the move a line made, None when it made none.
KindOf(info) == IF info = None THEN None ELSE Some(info[1].type)

\* After every line the simulator that runs the output is where the
\* simulator that runs the input is, in the same coordinate mode.
SameToolPath ==
  /\ Position(state) = Position(orig_state)
  /\ state.absolute_mode = orig_state.absolute_mode

\* C16: the simulator that executes the output lines has, after every line,
\* the position and the absolute/relative mode of a simulator that executes
\* the input lines, and only converted lines move in another kind than in
\* the input.
C16_SameToolPath ==
  Len(lines) > 0 =>
    /\ line_for_execution = output_lines[Len(lines)]
    /\ SameToolPath
    /\ ~converted => KindOf(move_info) = KindOf(orig_move_info)

\* C17: on every line the output executes as a feed move, the feed rate in
\* effect is the feed rate in effect at that line in the input; an F word
\* stripped from a converted line still governs later feed moves.
C17_FeedRatePreserved ==
  (move_info # None /\ move_info[1].type = "feed") =>
    state.feed_rate = orig_state.feed_rate

\* C18: after the text of a converted line is executed the motion mode is 0
\* and the move it made, if any, is a rapid, for a G1 replaced by G0 and for
\* a G0 put before a modal line alike; so a line without a G word directly
\* after a converted line is not itself converted.
C18_ConvertedRunsAsRapid ==
  /\ converted =>
       /\ state.current_g = Some(0)
       /\ move_info # None => move_info[1].type = "rapid"
  /\ (/\ Len(lines) >= 2
      /\ \E k \in 1..Len(conversions) :
           conversions[k].line_num = Len(lines) - 1
      /\ ~Has(LastParsed, "G")) => ~converted

RECURSIVE SumTimes(_)
SumTimes(history) ==
  IF history = <<>> THEN 0
  ELSE SumTimes(SubSeq(history, 1, Len(history) - 1))
       + history[Len(history)].time_s

\* C19: after any sequence of executed lines total_time_seconds is the sum of
\* the time_s of the records of the move history.
C19_TimeIsSumOfMoves == state.total_time_seconds = SumTimes(move_history)

\* A second move that took time, made after a move that took time.
C19_Witness ==
  /\ Len(move_history) = 2
  /\ move_history[1].time_s > 0
  /\ move_history[2].time_s > 0
  /\ move_info = Some(move_history[2])
  /\ state.total_time_seconds > entry_state.total_time_seconds
  /\ entry_state.total_time_seconds > 0

====
